---- MODULE Spec2Model ----
(***************************************************************************)
(* Review voting of Server/server.js: the two vote handlers                *)
(*   POST /api/reviews/usefulness   (per-user like / dislike / remove)     *)
(*   POST /api/reviews/:id/vote     (direct tally increment)               *)
(* and review creation, as a state machine over the review collection.     *)
(* Both vote handlers are async functions: each suspends at                *)
(* `await Review.findById(..)` and at `await review.save()`, so requests   *)
(* interleave at those two points and nowhere else.                        *)
(***************************************************************************)
EXTENDS Integers, Sequences, FiniteSets, TLC

\* ------------------------------------------------------------------ bounds
MaxRequests == 2          \* requests that reach the store (Spec)
MaxLedgerRequests == 4    \* requests that reach the store (SpecLedger)
MaxInFlight == 2          \* requests served at the same time

Users     == {"u1", "u2"}
ReviewIds == {"r1", "r2"}
Undefined == "undefined"  \* a field absent from the request body

IdInputs   == ReviewIds \cup {Undefined}

\* bodies {reviewId, userUUID, type} sent to /api/reviews/usefulness: every
\* vote of every user on every id, and bodies with no user, no type or an
\* unknown type
UsefulnessBodies ==
    (IdInputs \X Users \X {"like", "dislike", "remove"})
    \cup ({"r1", Undefined} \X {Undefined} \X {"like"})
    \cup ({"r1", Undefined} \X {"u1"} \X {Undefined, "upvote"})

\* the same, well-formed and on one review
LedgerBodies == {"r1"} \X Users \X {"like", "dislike", "remove"}

\* bodies {voteType} sent to /api/reviews/:id/vote
VoteTypeInputs == {"like", "dislike", "upvote"}

VARIABLES reviews,   \* the collection: review id -> stored document
          handlers,  \* the handler invocations that await findById or save
          admitted,  \* number of requests that reached findById
          last       \* the last request answered, with its response

vars == <<reviews, handlers, admitted, last>>

\* ------------------------------------------------------------- documents
EmptyVotes == [u \in {} |-> "like"]

NewReview == [thumbsUp |-> 0, thumbsDown |-> 0, userVotes |-> EmptyVotes]

NoDoc == [thumbsUp |-> 0, thumbsDown |-> 0, userVotes |-> EmptyVotes,
          modified |-> {}]

\* review.userVotes.get(k): the vote, or undefined when k has no entry
MapGet(m, k) == IF k \in DOMAIN m THEN m[k] ELSE Undefined

\* review.userVotes.set(k, v)
MapSet(m, k, v) == [x \in (DOMAIN m) \cup {k} |-> IF x = k THEN v ELSE m[x]]

\* review.userVotes.delete(k)
MapDelete(m, k) == [x \in (DOMAIN m) \ {k} |-> m[x]]

\* Review.findById(id): the id of the document found, none for null.
\* An absent id is looked up as _id: null and finds nothing.
FindById(id) == IF id \in DOMAIN reviews THEN {id} ELSE {}

AsDoc(r) == [thumbsUp |-> r.thumbsUp, thumbsDown |-> r.thumbsDown,
             userVotes |-> r.userVotes, modified |-> {}]

\* review.thumbsUp -= 1 / += 1, review.thumbsDown -= 1 / += 1
AddUp(d, n) == [d EXCEPT !.thumbsUp = @ + n,
                         !.modified = @ \cup {"thumbsUp"}]

AddDown(d, n) == [d EXCEPT !.thumbsDown = @ + n,
                           !.modified = @ \cup {"thumbsDown"}]

SetVote(d, u, v) == [d EXCEPT !.userVotes = MapSet(@, u, v),
                              !.modified = @ \cup {"userVotes"}]

DeleteVote(d, u) == [d EXCEPT !.userVotes = MapDelete(@, u),
                              !.modified = @ \cup {"userVotes"}]

\* save that writes the whole userVotes map of the document, not the one
\* key the handler touched
SaveDocWholeMap(stored, d, u) ==
    [thumbsUp   |-> IF "thumbsUp" \in d.modified
                    THEN d.thumbsUp ELSE stored.thumbsUp,
     thumbsDown |-> IF "thumbsDown" \in d.modified
                    THEN d.thumbsDown ELSE stored.thumbsDown,
     userVotes  |-> IF "userVotes" \in d.modified
                    THEN d.userVotes ELSE stored.userVotes]

\* review.save(): the document's modified paths are written over the stored
\* document (the two counters by value, the touched userVotes key set or
\* unset); paths the handler did not touch keep their stored value.  No
\* version is compared, so the write always goes through.
SaveDoc(stored, d, u) ==
    [thumbsUp   |-> IF "thumbsUp" \in d.modified
                    THEN d.thumbsUp ELSE stored.thumbsUp,
     thumbsDown |-> IF "thumbsDown" \in d.modified
                    THEN d.thumbsDown ELSE stored.thumbsDown,
     userVotes  |-> IF "userVotes" \in d.modified
                    THEN IF u \in DOMAIN d.userVotes
                         THEN MapSet(stored.userVotes, u, d.userVotes[u])
                         ELSE MapDelete(stored.userVotes, u)
                    ELSE stored.userVotes]

\* ------------------------------------------------- the usefulness handler
\* lines 456-467: type === 'remove' with a current vote
RemoveVote(d, u, currentVote) ==
    DeleteVote(IF currentVote = "like" THEN AddUp(d, -1)
               ELSE IF currentVote = "dislike" THEN AddDown(d, -1)
               ELSE d, u)

\* ToggleOff without line 477: the vote entry stays
ToggleOffKeepsVote(d, u, type) ==
    IF type = "like" THEN AddUp(d, -1)
    ELSE IF type = "dislike" THEN AddDown(d, -1)
    ELSE d

\* lines 470-477: the same vote again
ToggleOff(d, u, type) ==
    DeleteVote(IF type = "like" THEN AddUp(d, -1)
               ELSE IF type = "dislike" THEN AddDown(d, -1)
               ELSE d, u)

\* SwitchVote without lines 479-483: the old tally is not decremented
SwitchVoteKeepsOld(d, u, currentVote, type) ==
    SetVote(IF type = "like" THEN AddUp(d, 1)
            ELSE IF type = "dislike" THEN AddDown(d, 1)
            ELSE d, u, type)

\* lines 478-492: the opposite vote
SwitchVote(d, u, currentVote, type) ==
    LET d1 == IF currentVote = "like" THEN AddUp(d, -1)
              ELSE IF currentVote = "dislike" THEN AddDown(d, -1)
              ELSE d
        d2 == IF type = "like" THEN AddUp(d1, 1)
              ELSE IF type = "dislike" THEN AddDown(d1, 1)
              ELSE d1
    IN  SetVote(d2, u, type)

\* lines 494-502: a first vote
FirstVote(d, u, type) ==
    SetVote(IF type = "like" THEN AddUp(d, 1)
            ELSE IF type = "dislike" THEN AddDown(d, 1)
            ELSE d, u, type)

\* NothingToRemove without the check of line 457
NothingToRemoveUnchecked(review, u, type) == FALSE

\* lines 454-457: remove, and the user has no vote on the review
NothingToRemove(review, u, type) ==
    type = "remove" /\ MapGet(review.userVotes, u) = Undefined

\* lines 454-502 for a request that is not rejected at line 458
ApplyUsefulness(d, u, type) ==
    LET currentVote == MapGet(d.userVotes, u)
    IN  IF type = "remove" THEN RemoveVote(d, u, currentVote)
        ELSE IF currentVote # Undefined
             THEN IF currentVote = type THEN ToggleOff(d, u, type)
                  ELSE SwitchVote(d, u, currentVote, type)
             ELSE FirstVote(d, u, type)

\* line 444 without the check of the type against the three literals
InvalidUsefulnessAnyType(userUUID, type) ==
    \/ userUUID = Undefined
    \/ type = Undefined

\* line 444
InvalidUsefulness(userUUID, type) ==
    \/ userUUID = Undefined
    \/ type = Undefined
    \/ type \notin {"like", "dislike", "remove"}

\* ------------------------------------------------------------- responses
StoredOr(rs, id) == IF id \in DOMAIN rs THEN rs[id] ELSE NewReview

\* what the caller, and an observer of the store, see of one request: the
\* request, the response, whether the handler found the review, the stored
\* review right before the response (pre), and whether that is still the
\* document the handler had loaded (fresh)
Answer(r, status, error, found, ld) ==
    [kind |-> r.kind, reviewId |-> r.reviewId,
     userUUID |-> r.userUUID, type |-> r.type,
     status |-> status, error |-> error,
     found |-> found,
     fresh |-> found /\ ld = StoredOr(reviews, r.reviewId),
     pre |-> StoredOr(reviews, r.reviewId)]

NoAnswer == [kind |-> "none", reviewId |-> Undefined,
             userUUID |-> Undefined, type |-> Undefined,
             status |-> 0, error |-> "",
             found |-> FALSE, fresh |-> FALSE, pre |-> NewReview]

\* -------------------------------------------------------------- handlers
\* One invocation of a vote handler, suspended at an await: its request, the
\* await it is at (pc), the document findById gave it (loaded) and the
\* document with the handler's changes (doc).  copy tells apart invocations
\* serving equal requests at the same time.
SameRequest(h, kind, reviewId, userUUID, type) ==
    /\ h.kind = kind /\ h.reviewId = reviewId
    /\ h.userUUID = userUUID /\ h.type = type

Invocation(kind, reviewId, userUUID, type) ==
    [kind |-> kind, reviewId |-> reviewId, userUUID |-> userUUID,
     type |-> type, pc |-> "findById", loaded |-> NewReview, doc |-> NoDoc,
     copy |-> Cardinality({h \in handlers :
                             SameRequest(h, kind, reviewId, userUUID, type)})]

\* the handler runs on from its await to the next one
Resume(h, review, d) ==
    handlers' = (handlers \ {h}) \cup
                {[h EXCEPT !.pc = "save", !.loaded = review, !.doc = d]}

\* the response is sent and the handler returns
Respond(h, status, error, found, ld) ==
    /\ last' = Answer(h, status, error, found, ld)
    /\ handlers' = handlers \ {h}

\* ------------------------------------------------------------------ Init
Init ==
    /\ reviews = [r \in {} |-> NewReview]
    /\ handlers = {}
    /\ admitted = 0
    /\ last = NoAnswer

\* the identifier the store assigns to the next review
NextId == IF "r1" \notin DOMAIN reviews THEN "r1" ELSE "r2"

\* POST /api/reviews with all fields present: a review with default tallies
CreateReview ==
    /\ DOMAIN reviews # ReviewIds
    /\ reviews' = [r \in (DOMAIN reviews) \cup {NextId} |->
                      IF r = NextId THEN NewReview ELSE reviews[r]]
    /\ UNCHANGED <<handlers, admitted, last>>

\* POST /api/reviews/usefulness, lines 442-446: rejected by validation
UsefulnessInvalid(reviewId, userUUID, type) ==
    /\ InvalidUsefulness(userUUID, type)
    /\ last' = Answer([kind |-> "usefulness", reviewId |-> reviewId,
                       userUUID |-> userUUID, type |-> type],
                      400, "Invalid input", FALSE, NewReview)
    /\ UNCHANGED <<reviews, handlers, admitted>>

\* lines 442-449: validation passed, the handler awaits findById
UsefulnessReceive(reviewId, userUUID, type) ==
    /\ Cardinality(handlers) < MaxInFlight
    /\ ~InvalidUsefulness(userUUID, type)
    /\ handlers' = handlers \cup
                   {Invocation("usefulness", reviewId, userUUID, type)}
    /\ admitted' = admitted + 1
    /\ UNCHANGED <<reviews, last>>

\* lines 449-452: findById found nothing
UsefulnessNotFound(h) ==
    /\ h.pc = "findById" /\ h.kind = "usefulness"
    /\ FindById(h.reviewId) = {}
    /\ Respond(h, 404, "Review not found", FALSE, NewReview)
    /\ UNCHANGED <<reviews, admitted>>

\* lines 449-459: remove without a current vote
UsefulnessNoVote(h) ==
    /\ h.pc = "findById" /\ h.kind = "usefulness"
    /\ FindById(h.reviewId) # {}
    /\ NothingToRemove(reviews[h.reviewId], h.userUUID, h.type)
    /\ Respond(h, 400, "No vote to remove", TRUE, reviews[h.reviewId])
    /\ UNCHANGED <<reviews, admitted>>

\* lines 449-504: the document is loaded and changed, the handler awaits save
UsefulnessApply(h) ==
    /\ h.pc = "findById" /\ h.kind = "usefulness"
    /\ FindById(h.reviewId) # {}
    /\ LET review == reviews[h.reviewId]
       IN  /\ ~NothingToRemove(review, h.userUUID, h.type)
           /\ Resume(h, review,
                     ApplyUsefulness(AsDoc(review), h.userUUID, h.type))
    /\ UNCHANGED <<reviews, admitted, last>>

\* lines 504-505: save, then the saved document is the response
UsefulnessSave(h) ==
    /\ h.pc = "save" /\ h.kind = "usefulness"
    /\ reviews' = [reviews EXCEPT ![h.reviewId] =
                      SaveDoc(@, h.doc, h.userUUID)]
    /\ Respond(h, 200, "", TRUE, h.loaded)
    /\ UNCHANGED admitted

\* POST /api/reviews/:id/vote, lines 511-514: the handler awaits findById
VoteReceive(id, voteType) ==
    /\ Cardinality(handlers) < MaxInFlight
    /\ handlers' = handlers \cup {Invocation("vote", id, Undefined, voteType)}
    /\ admitted' = admitted + 1
    /\ UNCHANGED <<reviews, last>>

\* lines 514-518
VoteNotFound(h) ==
    /\ h.pc = "findById" /\ h.kind = "vote"
    /\ FindById(h.reviewId) = {}
    /\ Respond(h, 404, "Review not found", FALSE, NewReview)
    /\ UNCHANGED <<reviews, admitted>>

\* lines 520-526: neither like nor dislike
VoteInvalid(h) ==
    /\ h.pc = "findById" /\ h.kind = "vote"
    /\ FindById(h.reviewId) # {}
    /\ h.type \notin {"like", "dislike"}
    /\ Respond(h, 400, "Invalid vote type", TRUE, reviews[h.reviewId])
    /\ UNCHANGED <<reviews, admitted>>

\* lines 520-523 on the loaded document
ApplyVote(d, voteType) ==
    IF voteType = "like" THEN AddUp(d, 1)
    ELSE IF voteType = "dislike" THEN AddDown(d, 1)
    ELSE d

\* lines 514-528: the tally is incremented, the handler awaits save
VoteApply(h) ==
    /\ h.pc = "findById" /\ h.kind = "vote"
    /\ FindById(h.reviewId) # {}
    /\ h.type \in {"like", "dislike"}
    /\ Resume(h, reviews[h.reviewId],
              ApplyVote(AsDoc(reviews[h.reviewId]), h.type))
    /\ UNCHANGED <<reviews, admitted, last>>

\* lines 528-529
VoteSave(h) ==
    /\ h.pc = "save" /\ h.kind = "vote"
    /\ reviews' = [reviews EXCEPT ![h.reviewId] =
                      SaveDoc(@, h.doc, h.userUUID)]
    /\ Respond(h, 200, "", TRUE, h.loaded)
    /\ UNCHANGED admitted

\* lines 506-508 and 530-532: findById or save threw (the store is
\* unreachable, the id cannot be cast, the write is refused)
Catch(h) ==
    /\ Respond(h, 500,
               IF h.kind = "usefulness"
               THEN "Failed to update review usefulness"
               ELSE "Failed to update vote",
               h.pc = "save", h.loaded)
    /\ UNCHANGED <<reviews, admitted>>

Next ==
    \/ CreateReview
    \/ \E b \in UsefulnessBodies : UsefulnessInvalid(b[1], b[2], b[3])
    \/ /\ admitted < MaxRequests
       /\ \E b \in UsefulnessBodies : UsefulnessReceive(b[1], b[2], b[3])
    \/ \E h \in handlers : UsefulnessNotFound(h)
    \/ \E h \in handlers : UsefulnessNoVote(h)
    \/ \E h \in handlers : UsefulnessApply(h)
    \/ \E h \in handlers : UsefulnessSave(h)
    \/ /\ admitted < MaxRequests
       /\ \E id \in ReviewIds, t \in VoteTypeInputs : VoteReceive(id, t)
    \/ \E h \in handlers : VoteNotFound(h)
    \/ \E h \in handlers : VoteInvalid(h)
    \/ \E h \in handlers : VoteApply(h)
    \/ \E h \in handlers : VoteSave(h)
    \/ \E h \in handlers : Catch(h)

Spec == Init /\ [][Next]_vars

\* The per-user ledger alone: well-formed usefulness requests on one review,
\* followed further than Spec follows all requests.
NextLedger ==
    \/ CreateReview
    \/ /\ admitted < MaxLedgerRequests
       /\ \E b \in LedgerBodies : UsefulnessReceive(b[1], b[2], b[3])
    \/ \E h \in handlers : UsefulnessNotFound(h)
    \/ \E h \in handlers : UsefulnessNoVote(h)
    \/ \E h \in handlers : UsefulnessApply(h)
    \/ \E h \in handlers : UsefulnessSave(h)
    \/ \E h \in handlers : Catch(h)

SpecLedger == Init /\ [][NextLedger]_vars

\* ---------------------------------------------------------------- claims
CountVotes(m, v) == Cardinality({u \in DOMAIN m : m[u] = v})

Answered == last.kind # "none"

\* the stored review of the last request answered
Target == StoredOr(reviews, last.reviewId)

\* C1: in every reachable state, every review's thumbsUp is the number of
\* like entries of its userVotes and its thumbsDown the number of dislike
\* entries.
C1_TalliesMatchVotes ==
    \A r \in DOMAIN reviews :
        /\ reviews[r].thumbsUp = CountVotes(reviews[r].userVotes, "like")
        /\ reviews[r].thumbsDown = CountVotes(reviews[r].userVotes, "dislike")

\* one request run alone on a stored review: the review it leaves
Serial(review, kind, userUUID, type) ==
    IF kind = "usefulness"
    THEN IF NothingToRemove(review, userUUID, type)
         THEN review
         ELSE SaveDoc(review,
                      ApplyUsefulness(AsDoc(review), userUUID, type), userUUID)
    ELSE IF type \in {"like", "dislike"}
         THEN SaveDoc(review, ApplyVote(AsDoc(review), type), userUUID)
         ELSE review

\* C2: no lost update.  When two requests on one review both loaded the
\* stored review S and then both saved, one right after the other, the
\* review they leave is what running the two one after the other on S
\* leaves, in one of the two orders.
C2_SerialOutcome ==
    [][\A h \in handlers :
          (/\ h.pc = "save"
           /\ handlers' = handlers \ {h}
           /\ last'.status = 200
           /\ last.status = 200 /\ last.fresh
           /\ last.reviewId = h.reviewId
           /\ h.loaded = last.pre)
          => reviews'[h.reviewId] \in
               {Serial(Serial(last.pre, last.kind, last.userUUID, last.type),
                       h.kind, h.userUUID, h.type),
                Serial(Serial(last.pre, h.kind, h.userUUID, h.type),
                       last.kind, last.userUUID, last.type)}]_vars

\* C3: thumbsUp and thumbsDown of every review are never negative, whatever
\* likes, dislikes and removes the users send.
C3_TalliesNonNegative ==
    \A r \in DOMAIN reviews :
        reviews[r].thumbsUp >= 0 /\ reviews[r].thumbsDown >= 0

\* the transition table of the vote ledger: state x action -> new state
TableVote(cur, act) ==
    CASE cur = Undefined /\ act = "like"    -> "like"
      [] cur = Undefined /\ act = "dislike" -> "dislike"
      [] cur = Undefined /\ act = "remove"  -> "error"
      [] cur = "like"    /\ act = "like"    -> Undefined
      [] cur = "like"    /\ act = "dislike" -> "dislike"
      [] cur = "like"    /\ act = "remove"  -> Undefined
      [] cur = "dislike" /\ act = "like"    -> "like"
      [] cur = "dislike" /\ act = "dislike" -> Undefined
      [] cur = "dislike" /\ act = "remove"  -> Undefined
      [] OTHER -> "unspecified"

\* the table's change of thumbsUp
TableUp(cur, act) ==
    CASE cur = Undefined /\ act = "like" -> 1
      [] cur = "dislike" /\ act = "like" -> 1
      [] cur = "like" /\ act \in {"like", "dislike", "remove"} -> -1
      [] OTHER -> 0

\* the table's change of thumbsDown
TableDown(cur, act) ==
    CASE cur = Undefined /\ act = "dislike" -> 1
      [] cur = "like" /\ act = "dislike" -> 1
      [] cur = "dislike" /\ act \in {"like", "dislike", "remove"} -> -1
      [] OTHER -> 0

\* C4: the usefulness handler follows the transition table.  The document
\* it is about to save differs from the document it loaded by the table's
\* entry for (the user's vote in the loaded document, the requested action);
\* a request answered on the review as stored leaves the stored review
\* changed by that entry, and none+remove is answered "No vote to remove"
\* with the review as it was.
C4_TransitionTable ==
    /\ \A h \in handlers :
          (h.kind = "usefulness" /\ h.pc = "save") =>
             LET cur == MapGet(h.loaded.userVotes, h.userUUID)
             IN  /\ TableVote(cur, h.type) \in {"like", "dislike", Undefined}
                 /\ MapGet(h.doc.userVotes, h.userUUID) = TableVote(cur, h.type)
                 /\ h.doc.thumbsUp = h.loaded.thumbsUp + TableUp(cur, h.type)
                 /\ h.doc.thumbsDown
                       = h.loaded.thumbsDown + TableDown(cur, h.type)
    /\ (last.kind = "usefulness" /\ last.fresh /\ last.status \in {200, 400}) =>
          LET cur == MapGet(last.pre.userVotes, last.userUUID)
          IN  IF TableVote(cur, last.type) = "error"
              THEN /\ last.status = 400 /\ last.error = "No vote to remove"
                   /\ Target = last.pre
              ELSE /\ last.status = 200
                   /\ MapGet(Target.userVotes, last.userUUID)
                         = TableVote(cur, last.type)
                   /\ Target.thumbsUp
                         = last.pre.thumbsUp + TableUp(cur, last.type)
                   /\ Target.thumbsDown
                         = last.pre.thumbsDown + TableDown(cur, last.type)

\* a dislike switched to a like has been saved
C4_Witness ==
    /\ last.kind = "usefulness" /\ last.status = 200 /\ last.fresh
    /\ last.type = "like"
    /\ MapGet(last.pre.userVotes, last.userUUID) = "dislike"
    /\ Target.thumbsUp = 1 /\ Target.thumbsDown = 0

\* the answer just sent is a usefulness answer to the request (u, t) on r
\* whose handler read the review as it is stored
AnsweredFresh(a, r, u, t) ==
    /\ a.kind = "usefulness" /\ a.reviewId = r /\ a.userUUID = u /\ a.type = t
    /\ a.found /\ a.fresh

\* C5: a remove of a user who has no vote on the review is answered
\* "No vote to remove" and the review stays as it was; and a remove that
\* directly follows a successful remove of the same user on the same review
\* is answered so, with no review changed.
C5_NothingToRemove ==
    [][/\ (/\ last'.kind = "usefulness" /\ last'.type = "remove"
           /\ last'.found /\ last'.fresh
           /\ MapGet(last'.pre.userVotes, last'.userUUID) = Undefined)
          => /\ last'.status = 400 /\ last'.error = "No vote to remove"
             /\ StoredOr(reviews', last'.reviewId) = last'.pre
       /\ (/\ last.kind = "usefulness" /\ last.type = "remove"
           /\ last.status = 200
           /\ last' # last
           /\ AnsweredFresh(last', last.reviewId, last.userUUID, "remove"))
          => /\ last'.status = 400 /\ last'.error = "No vote to remove"
             /\ reviews' = reviews]_vars

\* a remove was refused on a review on which the other user holds a vote
C5_Witness ==
    /\ last.kind = "usefulness" /\ last.type = "remove"
    /\ last.status = 400 /\ last.error = "No vote to remove"
    /\ last.userUUID \notin DOMAIN Target.userVotes
    /\ DOMAIN Target.userVotes # {}
    /\ Target.thumbsUp + Target.thumbsDown = 1

InvalidInputErrors == {"Invalid input", "Invalid vote type"}

\* C6 as stated: every request with an unknown action is answered
\* InvalidInput and its review is left as it was, existing or not (requests
\* whose store call threw are left aside).
C6_UnknownActionIsInvalidInput ==
    (Answered /\ last.type = "upvote" /\ last.status # 500) =>
       /\ last.status = 400 /\ last.error \in InvalidInputErrors
       /\ Target = last.pre

\* C6: no request with an unknown action changes a review.  On the usefulness
\* endpoint it is always answered "Invalid input"; on the vote endpoint it is
\* answered "Invalid vote type" when the review is found, "Review not found"
\* when there is no such review, and a failure when the store call throws.
C6_UnknownActionRejected ==
    [][(last' # last /\ last'.type = "upvote") =>
          /\ reviews' = reviews
          /\ last'.kind = "usefulness" =>
                (last'.status = 400 /\ last'.error = "Invalid input")
          /\ last'.kind = "vote" =>
                \/ /\ last'.status = 400 /\ last'.error = "Invalid vote type"
                   /\ last'.reviewId \in DOMAIN reviews
                \/ /\ last'.status = 404 /\ last'.error = "Review not found"
                   /\ last'.reviewId \notin DOMAIN reviews
                \/ last'.status = 500]_vars

\* an unknown vote type was refused on a review that has a tally
C6_Witness ==
    /\ last.kind = "vote" /\ last.type = "upvote"
    /\ last.status = 400 /\ last.error = "Invalid vote type"
    /\ Target.thumbsUp + Target.thumbsDown > 0

\* C7: a usefulness request that lacks its review id, its user id or its
\* action is answered InvalidInput and changes no review (requests whose
\* store call threw are left aside).
C7_MissingFieldIsInvalidInput ==
    (/\ last.kind = "usefulness" /\ last.status # 500
     /\ Undefined \in {last.reviewId, last.userUUID, last.type})
    => /\ last.status = 400 /\ last.error = "Invalid input"
       /\ Target = last.pre

\* the error kind of an answer
ErrorKind(a) ==
    CASE a.status = 400 /\ a.error \in InvalidInputErrors -> "InvalidInput"
      [] a.status = 404 /\ a.error = "Review not found" -> "NotFound"
      [] a.status = 400 /\ a.error = "No vote to remove" -> "NothingToRemove"
      [] a.status = 409 -> "ConflictError"
      [] OTHER -> "unclassified"

\* C8: every vote request that does not succeed is answered with one of the
\* kinds InvalidInput, NotFound, NothingToRemove, ConflictError.
C8_FailuresAreClassified ==
    (Answered /\ last.status # 200) =>
       ErrorKind(last) \in
          {"InvalidInput", "NotFound", "NothingToRemove", "ConflictError"}

\* C9: a successful direct increment adds exactly 1 to the tally it names
\* and leaves the other tally and userVotes of the review as they were.
C9_DirectIncrement ==
    (last.kind = "vote" /\ last.status = 200) =>
       /\ Target.thumbsUp
             = last.pre.thumbsUp + (IF last.type = "like" THEN 1 ELSE 0)
       /\ Target.thumbsDown
             = last.pre.thumbsDown + (IF last.type = "dislike" THEN 1 ELSE 0)
       /\ Target.userVotes = last.pre.userVotes

\* C10: toggle law.  A user without a vote on the review sends a like (or a
\* dislike), and then the same again with nothing answered in between: the
\* review is stored again as it was before the first of the two.
C10_ToggleLaw ==
    [][(/\ last.type \in {"like", "dislike"}
        /\ AnsweredFresh(last, last.reviewId, last.userUUID, last.type)
        /\ last.status = 200
        /\ MapGet(last.pre.userVotes, last.userUUID) = Undefined
        /\ last' # last
        /\ AnsweredFresh(last', last.reviewId, last.userUUID, last.type)
        /\ last'.status = 200)
       => reviews'[last.reviewId] = last.pre]_vars

\* a user has toggled a like off again while the other user holds a vote
C10_Witness ==
    /\ last.kind = "usefulness" /\ last.type = "like"
    /\ last.status = 200 /\ last.fresh
    /\ MapGet(last.pre.userVotes, last.userUUID) = "like"
    /\ last.userUUID \notin DOMAIN Target.userVotes
    /\ DOMAIN Target.userVotes # {}
    /\ Target.thumbsUp = 0 /\ Target.thumbsDown = 1

\* the reviews other than r, and the votes of the users other than u on r,
\* are after the step what they were before it
OthersUntouched(r, u) ==
    /\ DOMAIN reviews' = DOMAIN reviews
    /\ \A q \in DOMAIN reviews : q # r => reviews'[q] = reviews[q]
    /\ r \in DOMAIN reviews =>
          \A v \in Users \ {u} :
             MapGet(reviews'[r].userVotes, v) = MapGet(reviews[r].userVotes, v)

\* C11: a step of a usefulness request of user u on review r (its rejection,
\* its lookup, its save, its failure) changes no other review and no other
\* user's entry of r.userVotes, whether the request succeeds or fails.
C11_OnlyOwnVote ==
    [][/\ \A h \in handlers :
             (h.kind = "usefulness" /\ h \notin handlers')
             => OthersUntouched(h.reviewId, h.userUUID)
       /\ (last' # last /\ last'.kind = "usefulness")
             => OthersUntouched(last'.reviewId, last'.userUUID)]_vars

\* a vote was saved on a review on which the other user holds a vote, while
\* another review exists
C11_Witness ==
    /\ last.kind = "usefulness" /\ last.status = 200
    /\ last.userUUID \in DOMAIN Target.userVotes
    /\ DOMAIN Target.userVotes = Users
    /\ DOMAIN reviews = ReviewIds
====
